---- MODULE Spec2Model ----
(***************************************************************************)
(* A model of geom.h: the rect<T, S> value type in its two integer         *)
(* instantiations recti = rect<int> and rectn = rect<int, unsigned>, and   *)
(* the mip-level helpers on sizeu.                                         *)
(*                                                                         *)
(* Machine integers are scaled down to Bits bits and keep their width:     *)
(* int arithmetic is two's complement (what the build produces for the     *)
(* overflowing signed operations), unsigned arithmetic is modulo 2^Bits.   *)
(***************************************************************************)
EXTENDS Integers, Sequences, FiniteSets, TLC

VARIABLES unsignedS, rc, st, call

vars == <<unsignedS, rc, st, call>>

(* ------------------------------ machine integers ----------------------- *)

\* Width in bits of int and of unsigned in the model (32 in the build).
Bits == 2

TMod == 2 ^ Bits
TMin == -(2 ^ (Bits - 1))
TMax == (2 ^ (Bits - 1)) - 1
UMax == TMod - 1

\* value_type T = int
T == TMin..TMax
\* unsigned
Unsigned == 0..UMax

\* conversion to int / result of an int operation
ToT(v) == ((v - TMin) % TMod) + TMin
\* conversion to unsigned / result of an unsigned operation
ToU(v) == v % TMod
\* static_cast<S>(v), S = unsigned when U, int otherwise
ToS(U, v) == IF U THEN ToU(v) ELSE ToT(v)
\* the values of S
SValues(U) == IF U THEN Unsigned ELSE T

\* C++ integer division by a positive divisor: truncates toward zero
TruncDiv(a, b) == IF a >= 0 THEN a \div b ELSE -((-a) \div b)
\* w / 2 evaluated in S
HalfS(U, w) == IF U THEN w \div 2 ELSE TruncDiv(w, 2)

Min(a, b) == IF a < b THEN a ELSE b
Max(a, b) == IF a < b THEN b ELSE a

(* ------------------------------ rect<T, S> ----------------------------- *)

NoRect == [none |-> TRUE]
Nullopt == [nullopt |-> TRUE]
\* the outcome of an expression that throws std::invalid_argument
Throw == [throw |-> "invalid_argument"]

MkRect(x1, y1, x2, y2) == [x1 |-> x1, y1 |-> y1, x2 |-> x2, y2 |-> y2]
MkPoint(x, y) == [x |-> x, y |-> y]
MkSize(w, h) == [width |-> w, height |-> h]

\* rect(T x1, T y1, T x2, T y2): throws for unsigned S when x2 < x1 or y2 < y1
Rect4(U, x1, y1, x2, y2) ==
    IF U /\ (x2 < x1 \/ y2 < y1) THEN Throw ELSE MkRect(x1, y1, x2, y2)

\* rect(const point<T> & org, const size<S> & size) noexcept: no check
RectPointSize(U, org, size) ==
    MkRect(org.x, org.y, ToT(org.x + ToT(size.width)), ToT(org.y + ToT(size.height)))

\* rect(const point<T> & org, const point<T> & dest) noexcept: no check
RectPointPoint(U, org, dest) == MkRect(org.x, org.y, dest.x, dest.y)

\* explicit rect(const size<S> & size) noexcept
RectSize(U, size) == RectPointSize(U, MkPoint(0, 0), size)

\* from_size(x, y, w, h): rect(x, y, x+w, y+h), the sums converted to T
FromSize(U, x, y, w, h) == Rect4(U, x, y, ToT(x + w), ToT(y + h))

Width(U, r) == ToS(U, ToT(r.x2 - r.x1))
Height(U, r) == ToS(U, ToT(r.y2 - r.y1))

SetWidth(U, r, w) == [r EXCEPT !.x2 = ToT(r.x1 + w)]
SetHeight(U, r, h) == [r EXCEPT !.y2 = ToT(r.y1 + h)]

\* move_left with its two assignments in the other order: x1 = x first
MoveLeftReordered(r, x) == [r EXCEPT !.x2 = ToT(x + ToT(r.x2 - x)), !.x1 = x]

MoveLeft(r, x) == [r EXCEPT !.x2 = ToT(x + ToT(r.x2 - r.x1)), !.x1 = x]
MoveTop(r, y) == [r EXCEPT !.y2 = ToT(y + ToT(r.y2 - r.y1)), !.y1 = y]
MoveRight(r, x) == [r EXCEPT !.x1 = ToT(x - ToT(r.x2 - r.x1)), !.x2 = x]
MoveBottom(r, y) == [r EXCEPT !.y1 = ToT(y - ToT(r.y2 - r.y1)), !.y2 = y]
Move(r, x, y) ==
    MkRect(x, y, ToT(x + ToT(r.x2 - r.x1)), ToT(y + ToT(r.y2 - r.y1)))

MoveCenter(U, r, cx, cy) ==
    LET w == Width(U, r)
        h == Height(U, r)
        nx1 == ToT(cx - HalfS(U, w))
        ny1 == ToT(cy - HalfS(U, h))
    IN  MkRect(nx1, ny1, ToT(nx1 + w), ToT(ny1 + h))

Resize(U, r, size) ==
    [r EXCEPT !.x2 = ToT(r.x1 + size.width), !.y2 = ToT(r.y1 + size.height)]

TopLeft(r) == MkPoint(r.x1, r.y1)
TopRight(r) == MkPoint(r.x2, r.y1)
BottomLeft(r) == MkPoint(r.x1, r.y2)
BottomRight(r) == MkPoint(r.x2, r.y2)

Center(r) ==
    MkPoint(ToT(r.x1 + TruncDiv(ToT(r.x2 - r.x1), 2)),
            ToT(r.y1 + TruncDiv(ToT(r.y2 - r.y1), 2)))

Empty(r) == r.x2 = r.x1 \/ r.y2 = r.y1

\* contains(x, y) with the right and bottom edges included
ContainsXYClosed(r, x, y) == r.x1 <= x /\ x <= r.x2 /\ r.y1 <= y /\ y <= r.y2

ContainsXY(r, x, y) == r.x1 <= x /\ x < r.x2 /\ r.y1 <= y /\ y < r.y2
ContainsPoint(r, pt) == ContainsXY(r, pt.x, pt.y)
ContainsRect(r, inner) ==
    inner.x1 >= r.x1 /\ inner.y1 >= r.y1 /\ inner.x2 <= r.x2 /\ inner.y2 <= r.y2

Translated(U, r, dx, dy) ==
    Rect4(U, ToT(r.x1 + dx), ToT(r.y1 + dy), ToT(r.x2 + dx), ToT(r.y2 + dy))

Adjusted(U, r, dx1, dy1, dx2, dy2) ==
    Rect4(U, ToT(r.x1 + dx1), ToT(r.y1 + dy1), ToT(r.x2 + dx2), ToT(r.y2 + dy2))

Expanded(U, r, d) ==
    Rect4(U, ToT(r.x1 - d), ToT(r.y1 - d), ToT(r.x2 + d), ToT(r.y2 + d))

Shrinked(U, r, d) == Expanded(U, r, ToT(-d))

United(U, r, other) ==
    IF Empty(r) THEN other
    ELSE IF Empty(other) THEN r
    ELSE Rect4(U, Min(r.x1, other.x1), Min(r.y1, other.y1),
                  Max(r.x2, other.x2), Max(r.y2, other.y2))

Transposed(r) == MkRect(r.y1, r.x1, r.y2, r.x2)

\* intersected with the first test made against x1 instead of x2
IntersectedWrongEdge(U, r, other) ==
    IF other.x1 >= r.x1 \/ other.x2 <= r.x1 \/ other.y1 >= r.y2 \/ other.y2 <= r.y1
    THEN Nullopt
    ELSE Rect4(U, Max(r.x1, other.x1), Max(r.y1, other.y1),
                  Min(r.x2, other.x2), Min(r.y2, other.y2))

Intersected(U, r, other) ==
    IF other.x1 >= r.x2 \/ other.x2 <= r.x1 \/ other.y1 >= r.y2 \/ other.y2 <= r.y1
    THEN Nullopt
    ELSE Rect4(U, Max(r.x1, other.x1), Max(r.y1, other.y1),
                  Min(r.x2, other.x2), Min(r.y2, other.y2))

\* cast<T2, S2>() for T2 = int: the four-coordinate constructor of rect<int, S2>
Cast(U2, r) == Rect4(U2, r.x1, r.y1, r.x2, r.y2)


\* std::round: half away from zero, of the value n / 2
RoundHalves(n) == IF n >= 0 THEN (n + 1) \div 2 ELSE -((1 - n) \div 2)

\* (T) of a floating value: the value when it fits; otherwise the conversion is
\* undefined and the build yields the "integer indefinite" TMin or saturates
FloatToT(v) ==
    IF v \in T THEN {v} ELSE {TMin, IF v > TMax THEN TMax ELSE TMin}

\* scale(float f, const pointi & c) with f = fh / 2: the rectangles it may leave
Scale(r, fh, c) ==
    {MkRect(ToT(c.x - a), ToT(c.y - b), ToT(c.x + d), ToT(c.y + e)) :
        <<a, b, d, e>> \in FloatToT(RoundHalves(ToT(c.x - r.x1) * fh))
                      \X FloatToT(RoundHalves(ToT(c.y - r.y1) * fh))
                      \X FloatToT(RoundHalves(ToT(r.x2 - c.x) * fh))
                      \X FloatToT(RoundHalves(ToT(r.y2 - c.y) * fh))}

(* ------------------------------ inputs --------------------------------- *)

\* offsets tried by adjust, and coordinates of the rectangles and points
\* passed as arguments
Probe == {-1, 0, 1}
ProbePoints == {MkPoint(x, y) : x \in Probe, y \in Probe}
\* argument rectangles: made by rect(org, dest), which exists for both S
Others(U) == {RectPointPoint(U, p, q) : p \in ProbePoints, q \in ProbePoints}
\* scale factors, in halves: -1, 0, 1/2, 1, 3/2
ScaleHalves == {-2, 0, 1, 2, 3}

Points == {MkPoint(x, y) : x \in T, y \in T}
Sizes(U) == {MkSize(w, h) : w \in SValues(U), h \in SValues(U)}

(* ------------------------------ the object ----------------------------- *)

\* A construction: the object exists afterwards unless the constructor threw.
Constructed(res, c) ==
    /\ rc' = IF res = Throw THEN NoRect ELSE res
    /\ st' = IF res = Throw THEN "invalid_argument" ELSE "ok"
    /\ call' = c
    /\ UNCHANGED unsignedS

\* An in-place operation that cannot throw.
Assigned(r, c) ==
    /\ rc' = r
    /\ st' = "ok"
    /\ call' = c
    /\ UNCHANGED unsignedS

\* *this = <expression> inside a noexcept function: an exception leaving the
\* expression calls std::terminate and the object is left as it was.
AssignedNoexcept(res, c) ==
    /\ rc' = IF res = Throw THEN rc ELSE res
    /\ st' = IF res = Throw THEN "terminate" ELSE "ok"
    /\ call' = c
    /\ UNCHANGED unsignedS

\* *this = <expression> in a function that may throw: the exception reaches
\* the caller and the object is left as it was.
AssignedThrowing(res, c) ==
    /\ rc' = IF res = Throw THEN rc ELSE res
    /\ st' = IF res = Throw THEN "invalid_argument" ELSE "ok"
    /\ call' = c
    /\ UNCHANGED unsignedS

\* A const member function returning res; noex: it is declared noexcept.
Returned(res, noex, c) ==
    /\ st' = IF res = Throw THEN (IF noex THEN "terminate" ELSE "invalid_argument")
             ELSE "ok"
    /\ call' = [c EXCEPT !.ret = res]
    /\ UNCHANGED <<unsignedS, rc>>

\* no call is in progress
Idle == [op |-> "none"]

NotBuilt == rc = NoRect /\ st = "none"
\* the object exists, the process has not been terminated and the caller is
\* ready to make its next call
Alive == rc # NoRect /\ st # "terminate" /\ call.op = "none"

CtorRect4 ==
    /\ NotBuilt
    /\ \E x1 \in T, y1 \in T, x2 \in T, y2 \in T :
        Constructed(Rect4(unsignedS, x1, y1, x2, y2),
                    [op |-> "rect4", x1 |-> x1, y1 |-> y1, x2 |-> x2, y2 |-> y2])

CtorPointSize ==
    /\ NotBuilt
    /\ \E org \in Points, size \in Sizes(unsignedS) :
        Constructed(RectPointSize(unsignedS, org, size),
                    [op |-> "rect_point_size", org |-> org, size |-> size])

CtorPointPoint ==
    /\ NotBuilt
    /\ \E org \in Points, dest \in Points :
        Constructed(RectPointPoint(unsignedS, org, dest),
                    [op |-> "rect_point_point", org |-> org, dest |-> dest])

CtorSize ==
    /\ NotBuilt
    /\ \E size \in Sizes(unsignedS) :
        Constructed(RectSize(unsignedS, size),
                    [op |-> "rect_size", org |-> MkPoint(0, 0), size |-> size])

CtorFromSize ==
    /\ NotBuilt
    /\ \E x \in T, y \in T, w \in SValues(unsignedS), h \in SValues(unsignedS) :
        Constructed(FromSize(unsignedS, x, y, w, h),
                    [op |-> "from_size", org |-> MkPoint(x, y), size |-> MkSize(w, h)])


(* ------------------------------ in-place operations -------------------- *)

CallSetWidth ==
    /\ Alive
    /\ \E w \in SValues(unsignedS) :
        Assigned(SetWidth(unsignedS, rc, w), [op |-> "set_width", pre |-> rc, v |-> w])

CallSetHeight ==
    /\ Alive
    /\ \E h \in SValues(unsignedS) :
        Assigned(SetHeight(unsignedS, rc, h), [op |-> "set_height", pre |-> rc, v |-> h])

CallResize ==
    /\ Alive
    /\ \E size \in Sizes(unsignedS) :
        Assigned(Resize(unsignedS, rc, size), [op |-> "resize", pre |-> rc, size |-> size])

CallMoveLeft ==
    /\ Alive
    /\ \E x \in T : Assigned(MoveLeft(rc, x), [op |-> "move_left", pre |-> rc, v |-> x])

CallMoveTop ==
    /\ Alive
    /\ \E y \in T : Assigned(MoveTop(rc, y), [op |-> "move_top", pre |-> rc, v |-> y])

CallMoveRight ==
    /\ Alive
    /\ \E x \in T : Assigned(MoveRight(rc, x), [op |-> "move_right", pre |-> rc, v |-> x])

CallMoveBottom ==
    /\ Alive
    /\ \E y \in T : Assigned(MoveBottom(rc, y), [op |-> "move_bottom", pre |-> rc, v |-> y])

CallMove ==
    /\ Alive
    /\ \E org \in Points :
        Assigned(Move(rc, org.x, org.y), [op |-> "move", pre |-> rc, pt |-> org])

CallMoveCenter ==
    /\ Alive
    /\ \E c \in Points :
        Assigned(MoveCenter(unsignedS, rc, c.x, c.y),
                 [op |-> "move_center", pre |-> rc, pt |-> c])

\* a write through rleft()
WriteLeft ==
    /\ Alive
    /\ \E x \in T : Assigned([rc EXCEPT !.x1 = x], [op |-> "rleft", pre |-> rc, v |-> x])

WriteTop ==
    /\ Alive
    /\ \E y \in T : Assigned([rc EXCEPT !.y1 = y], [op |-> "rtop", pre |-> rc, v |-> y])

WriteRight ==
    /\ Alive
    /\ \E x \in T : Assigned([rc EXCEPT !.x2 = x], [op |-> "rright", pre |-> rc, v |-> x])

WriteBottom ==
    /\ Alive
    /\ \E y \in T : Assigned([rc EXCEPT !.y2 = y], [op |-> "rbottom", pre |-> rc, v |-> y])

CallTranslate ==
    /\ Alive
    /\ \E dt \in Points :
        AssignedNoexcept(Translated(unsignedS, rc, dt.x, dt.y),
                         [op |-> "translate", pre |-> rc, pt |-> dt])

CallAdjust ==
    /\ Alive
    /\ \E dx1 \in Probe, dy1 \in Probe, dx2 \in Probe, dy2 \in Probe :
        AssignedNoexcept(Adjusted(unsignedS, rc, dx1, dy1, dx2, dy2),
                         [op |-> "adjust", pre |-> rc,
                          d |-> MkRect(dx1, dy1, dx2, dy2)])

CallUnite ==
    /\ Alive
    /\ \E other \in Others(unsignedS) :
        AssignedThrowing(United(unsignedS, rc, other),
                         [op |-> "unite", pre |-> rc, other |-> other])

CallTranspose ==
    /\ Alive
    /\ Assigned(Transposed(rc), [op |-> "transpose", pre |-> rc])

CallScale ==
    /\ Alive
    /\ \E fh \in ScaleHalves, c \in ProbePoints :
        \E r \in Scale(rc, fh, c) :
            Assigned(r, [op |-> "scale", pre |-> rc, fh |-> fh, pt |-> c])

(* ------------------------------ derived rectangles --------------------- *)

CallExpanded ==
    /\ Alive
    /\ \E d \in T :
        Returned(Expanded(unsignedS, rc, d), TRUE,
                 [op |-> "expanded", pre |-> rc, v |-> d, ret |-> NoRect])

CallShrinked ==
    /\ Alive
    /\ \E d \in T :
        Returned(Shrinked(unsignedS, rc, d), TRUE,
                 [op |-> "shrinked", pre |-> rc, v |-> d, ret |-> NoRect])

\* cast<int, S2>(): to the other instantiation; not noexcept
CallCast ==
    /\ Alive
    /\ \E U2 \in BOOLEAN :
        Returned(Cast(U2, rc), FALSE,
                 [op |-> "cast", pre |-> rc, to_unsigned |-> U2, ret |-> NoRect])

(* ------------------------------ queries -------------------------------- *)

\* intersected(other): not noexcept, an exception reaches the caller
CallIntersected ==
    /\ Alive
    /\ \E other \in Others(unsignedS) \cup {rc} :
        Returned(Intersected(unsignedS, rc, other), FALSE,
                 [op |-> "intersected", pre |-> rc, other |-> other, ret |-> NoRect])

\* united(other): not noexcept
CallUnited ==
    /\ Alive
    /\ \E other \in Others(unsignedS) \cup {rc} :
        Returned(United(unsignedS, rc, other), FALSE,
                 [op |-> "united", pre |-> rc, other |-> other, ret |-> NoRect])

\* contains(const point<T> &), asked of the corners and of other points
CallContains ==
    /\ Alive
    /\ \E pt \in ProbePoints
               \cup {TopLeft(rc), TopRight(rc), BottomLeft(rc), BottomRight(rc)} :
        /\ call' = [op |-> "contains", pre |-> rc, pt |-> pt,
                     ret |-> ContainsPoint(rc, pt)]
        /\ st' = "ok"
        /\ UNCHANGED <<unsignedS, rc>>

\* The caller takes the outcome of its last call (a result, or an exception
\* it catches) and goes on with the object.
Continue ==
    /\ rc # NoRect
    /\ st # "terminate"
    /\ call.op # "none"
    /\ call' = Idle
    /\ st' = "ok"
    /\ UNCHANGED <<unsignedS, rc>>

Init ==
    /\ unsignedS \in BOOLEAN
    /\ rc = NoRect
    /\ st = "none"
    /\ call = Idle

Next ==
    \/ CtorRect4 \/ CtorPointSize \/ CtorPointPoint \/ CtorSize \/ CtorFromSize
    \/ CallSetWidth \/ CallSetHeight \/ CallResize
    \/ CallMoveLeft \/ CallMoveTop \/ CallMoveRight \/ CallMoveBottom
    \/ CallMove \/ CallMoveCenter
    \/ WriteLeft \/ WriteTop \/ WriteRight \/ WriteBottom
    \/ CallTranslate \/ CallAdjust \/ CallUnite \/ CallTranspose \/ CallScale
    \/ CallExpanded \/ CallShrinked \/ CallCast
    \/ CallIntersected \/ CallUnited \/ CallContains
    \/ Continue

Spec == Init /\ [][Next]_vars


(* ------------------------------ mip levels (sizeu) --------------------- *)

\* Width in bits of unsigned int and of uint32_t in the mip helpers (32 in
\* the build).
MipBits == 4

MipMod == 2 ^ MipBits
Dims == 0..(MipMod - 1)
MipSizes == {MkSize(w, h) : w \in Dims, h \in Dims}

\* the outcome of an integer division by zero
Fault == [fault |-> "division by zero"]

\* std::countl_zero on a MipBits-wide unsigned value
CountlZero(z) ==
    CHOOSE n \in 0..MipBits :
        /\ z < 2 ^ (MipBits - n)
        /\ (n = MipBits \/ z >= 2 ^ (MipBits - n - 1))

\* nearest_mip_level divides by a request dimension that is zero
NearestMipLevelFaults(base, request) ==
    /\ ~(request.width >= base.width \/ request.height >= base.height)
    /\ (request.width = 0 \/ request.height = 0)

\* nearest_mip_level taking the larger of the two quotients
NearestMipLevelMax(base, request) ==
    IF request.width >= base.width \/ request.height >= base.height THEN 0
    ELSE LET z == Max(base.width \div request.width,
                      base.height \div request.height) % MipMod
         IN  (MipBits - CountlZero(z) - 1) % MipMod

\* nearest_mip_level where it does not fault
NearestMipLevel(base, request) ==
    IF request.width >= base.width \/ request.height >= base.height THEN 0
    ELSE LET z == Min(base.width \div request.width,
                      base.height \div request.height) % MipMod
         IN  (MipBits - CountlZero(z) - 1) % MipMod

CallNearestMipLevel ==
    /\ call.op = "none"
    /\ \E base \in MipSizes, request \in MipSizes :
        LET faults == NearestMipLevelFaults(base, request)
        IN  /\ call' = [op |-> "nearest_mip_level", base |-> base,
                        request |-> request,
                        ret |-> IF faults THEN Fault
                                ELSE NearestMipLevel(base, request)]
            /\ st' = IF faults THEN "fault" ELSE "ok"
    /\ UNCHANGED <<unsignedS, rc>>

\* mip_levels(base_size): sizeof(T) * 8 - countl_zero(min(width, height))
MipLevels(base) ==
    (MipBits - CountlZero(Min(base.width, base.height))) % MipMod

\* mip_levels(base_size, trim_levels): trim_levels + 1u is an unsigned sum
MipLevelsTrim(base, trim) ==
    LET l == MipLevels(base)
    IN  IF l > (trim + 1) % MipMod THEN (l - trim) % MipMod ELSE 1

CallMipLevels ==
    /\ call.op = "none"
    /\ \E base \in MipSizes :
        call' = [op |-> "mip_levels", base |-> base, ret |-> MipLevels(base)]
    /\ st' = "ok"
    /\ UNCHANGED <<unsignedS, rc>>

CallMipLevelsTrim ==
    /\ call.op = "none"
    /\ \E base \in MipSizes, trim \in Dims :
        call' = [op |-> "mip_levels_trim", base |-> base, trim |-> trim,
                 ret |-> MipLevelsTrim(base, trim)]
    /\ st' = "ok"
    /\ UNCHANGED <<unsignedS, rc>>

\* level arguments: up to the width of unsigned
Levels == 0..MipBits

\* 1u << level: a shift by the width of unsigned or more is undefined; the
\* build shifts by the count modulo the width, or folds the shift to 0
OneShiftedLeft(level) ==
    IF level < MipBits THEN {2 ^ level} ELSE {2 ^ (level % MipBits), 0}

\* mip_size(base_size, level): the sizes it may return, Fault when it divides
\* by a zero 1u << level
MipSize(base, level) ==
    {IF d = 0 THEN Fault ELSE MkSize(base.width \div d, base.height \div d) :
        d \in OneShiftedLeft(level)}

CallMipSize ==
    /\ call.op = "none"
    /\ \E base \in MipSizes, level \in Levels :
        \E res \in MipSize(base, level) :
            /\ call' = [op |-> "mip_size", base |-> base, level |-> level,
                         ret |-> res]
            /\ st' = IF res = Fault THEN "fault" ELSE "ok"
    /\ UNCHANGED <<unsignedS, rc>>

InitMip ==
    /\ unsignedS = TRUE
    /\ rc = NoRect
    /\ st = "none"
    /\ call = Idle

NextMip ==
    CallNearestMipLevel \/ CallMipLevels \/ CallMipLevelsTrim \/ CallMipSize

SpecMip == InitMip /\ [][NextMip]_vars


(* ------------------------------ properties ----------------------------- *)

CtorOps == {"rect4", "rect_point_size", "rect_point_point", "rect_size", "from_size"}

\* neither extent is negative
Normalized(r) == r.x2 >= r.x1 /\ r.y2 >= r.y1
\* both extents are positive
Positive(r) == r.x1 < r.x2 /\ r.y1 < r.y2

\* C1: for unsigned S every construction path that would yield x2 < x1 or
\* y2 < y1 fails with invalid-argument instead of producing a rectangle: a
\* construction of a rect<int, unsigned> that succeeds leaves x2 >= x1 and
\* y2 >= y1.
C1_ConstructionRejectsNegative ==
    (unsignedS /\ call.op \in CtorOps /\ st = "ok") => Normalized(rc)

InPlaceOps ==
    {"set_width", "set_height", "resize", "move_left", "move_top", "move_right",
     "move_bottom", "move", "move_center", "translate", "adjust", "unite",
     "transpose", "scale", "rleft", "rtop", "rright", "rbottom"}

\* C2: a normalized rectangle (unsigned S) never has negative width or height:
\* every in-place operation applied to a rect<int, unsigned> with x2 >= x1 and
\* y2 >= y1 leaves x2 >= x1 and y2 >= y1.
C2_InPlaceKeepsNormalized ==
    (unsignedS /\ call.op \in InPlaceOps /\ Normalized(call.pre)) => Normalized(rc)

TotalOps ==
    {"translate", "adjust", "expanded", "shrinked", "united", "unite",
     "intersected", "transpose", "cast", "move_left", "move_top", "move_right",
     "move_bottom", "move", "move_center", "resize"}

\* C3: invalid-argument is raised only by a construction the caller asked for;
\* every other rectangle operation applied to a constructed rectangle completes
\* without a runtime failure, for every argument, also on unsigned-S rectangles.
C3_OnlyConstructionFails ==
    call.op \in TotalOps => st = "ok"

\* C4: a.intersected(b) yields no rectangle exactly when b.x1 >= a.x2 or
\* b.x2 <= a.x1 or b.y1 >= a.y2 or b.y2 <= a.y1, and otherwise yields the
\* rectangle (max(a.x1,b.x1), max(a.y1,b.y1), min(a.x2,b.x2), min(a.y2,b.y2)).
C4_Intersected ==
    call.op = "intersected" =>
        LET a == call.pre
            b == call.other
        IN  /\ st = "ok"
            /\ call.ret =
                 IF b.x1 >= a.x2 \/ b.x2 <= a.x1 \/ b.y1 >= a.y2 \/ b.y2 <= a.y1
                 THEN Nullopt
                 ELSE MkRect(Max(a.x1, b.x1), Max(a.y1, b.y1),
                             Min(a.x2, b.x2), Min(a.y2, b.y2))

\* C5 as stated: for every rectangle r with empty() false, also one with a
\* negative width or height, r.intersected(r) yields r.
C5_SelfIntersectionOfNonEmpty ==
    (call.op = "intersected" /\ call.other = call.pre /\ ~Empty(call.pre))
        => (st = "ok" /\ call.ret = call.pre)

\* C5 amended: for every rectangle r with x1 < x2 and y1 < y2,
\* r.intersected(r) yields r; for a rectangle with empty() false and a negative
\* width or height it yields no rectangle.
C5_SelfIntersectionOfPositive ==
    (call.op = "intersected" /\ call.other = call.pre /\ ~Empty(call.pre))
        => /\ st = "ok"
           /\ call.ret = IF Positive(call.pre) THEN call.pre ELSE Nullopt

C5_Witness ==
    /\ call.op = "intersected"
    /\ call.other = call.pre
    /\ Positive(call.pre)
    /\ call.pre.x2 - call.pre.x1 > 1
    /\ call.ret = call.pre

\* C6 as stated: for any rectangle r with empty() false, r.contains(top_left())
\* is true and r.contains(bottom_right()) is false.
C6_CornersOfNonEmpty ==
    (call.op = "contains" /\ ~Empty(call.pre))
        => /\ call.pt = TopLeft(call.pre) => call.ret = TRUE
           /\ call.pt = BottomRight(call.pre) => call.ret = FALSE

\* C6 amended: for any rectangle r with x1 < x2 and y1 < y2,
\* r.contains(top_left()) is true and r.contains(bottom_right()) is false; with
\* empty() false and a negative width or height both are false.
C6_CornersOfPositive ==
    (call.op = "contains" /\ ~Empty(call.pre))
        => /\ call.pt = TopLeft(call.pre) => call.ret = Positive(call.pre)
           /\ call.pt = BottomRight(call.pre) => call.ret = FALSE

C6_Witness ==
    /\ call.op = "contains"
    /\ Positive(call.pre)
    /\ call.pt = TopLeft(call.pre)
    /\ call.ret = TRUE

\* C7: for a and b both with empty() false, a.united(b) is the coordinatewise
\* min of the origins and max of the termini and contains a and b under the
\* closed rectangle containment; when either is empty() the other is returned
\* unchanged.
C7_United ==
    call.op = "united" =>
        LET a == call.pre
            b == call.other
        IN  /\ st = "ok"
            /\ IF Empty(a) THEN call.ret = b
               ELSE IF Empty(b) THEN call.ret = a
               ELSE /\ call.ret = MkRect(Min(a.x1, b.x1), Min(a.y1, b.y1),
                                         Max(a.x2, b.x2), Max(a.y2, b.y2))
                    /\ ContainsRect(call.ret, a)
                    /\ ContainsRect(call.ret, b)

\* C8: move_left(x), move_top(y), move_right(x), move_bottom(y) set the named
\* edge to the given coordinate, leave the extent on that axis as it was and
\* leave both coordinates of the other axis unchanged; move(x, y) sets the
\* origin to (x, y) and leaves width and height unchanged.
C8_MovePreservesExtent ==
    /\ call.op = "move_left" =>
        /\ rc.x1 = call.v
        /\ ToT(rc.x2 - rc.x1) = ToT(call.pre.x2 - call.pre.x1)
        /\ rc.y1 = call.pre.y1 /\ rc.y2 = call.pre.y2
    /\ call.op = "move_right" =>
        /\ rc.x2 = call.v
        /\ ToT(rc.x2 - rc.x1) = ToT(call.pre.x2 - call.pre.x1)
        /\ rc.y1 = call.pre.y1 /\ rc.y2 = call.pre.y2
    /\ call.op = "move_top" =>
        /\ rc.y1 = call.v
        /\ ToT(rc.y2 - rc.y1) = ToT(call.pre.y2 - call.pre.y1)
        /\ rc.x1 = call.pre.x1 /\ rc.x2 = call.pre.x2
    /\ call.op = "move_bottom" =>
        /\ rc.y2 = call.v
        /\ ToT(rc.y2 - rc.y1) = ToT(call.pre.y2 - call.pre.y1)
        /\ rc.x1 = call.pre.x1 /\ rc.x2 = call.pre.x2
    /\ call.op = "move" =>
        /\ TopLeft(rc) = call.pt
        /\ ToT(rc.x2 - rc.x1) = ToT(call.pre.x2 - call.pre.x1)
        /\ ToT(rc.y2 - rc.y1) = ToT(call.pre.y2 - call.pre.y1)

C8_Witness ==
    /\ call.op = "move_left"
    /\ call.v # call.pre.x1
    /\ call.pre.x2 - call.pre.x1 = 1
    /\ rc.x2 - rc.x1 = 1
    /\ rc.x2 # call.pre.x2

\* C9: after r.move_center(cx, cy) the rectangle's center() is (cx, cy) and its
\* width() and height() are the same as before the call.
C9_MoveCenter ==
    call.op = "move_center" =>
        /\ Center(rc) = call.pt
        /\ Width(unsignedS, rc) = Width(unsignedS, call.pre)
        /\ Height(unsignedS, rc) = Height(unsignedS, call.pre)

\* floor(log2(q)) for q >= 1
FloorLog2(q) == CHOOSE k \in 0..MipBits : 2 ^ k <= q /\ q < 2 ^ (k + 1)

\* the number of binary digits of q
RECURSIVE BitLength(_)
BitLength(q) == IF q = 0 THEN 0 ELSE 1 + BitLength(q \div 2)

\* C10: with request.width and request.height non-zero, nearest_mip_level
\* returns 0 if request.width >= base.width or request.height >= base.height,
\* and otherwise floor(log2(min(base.width / request.width,
\* base.height / request.height))), the bit length of that quotient minus one.
C10_NearestMipLevel ==
    (call.op = "nearest_mip_level"
        /\ call.request.width # 0 /\ call.request.height # 0) =>
        LET b == call.base
            r == call.request
            q == Min(b.width \div r.width, b.height \div r.height)
        IN  /\ st = "ok"
            /\ IF r.width >= b.width \/ r.height >= b.height
               THEN call.ret = 0
               ELSE /\ call.ret = FloorLog2(q)
                    /\ call.ret = BitLength(q) - 1

C10_Witness ==
    /\ call.op = "nearest_mip_level"
    /\ st = "ok"
    /\ call.request.width # 0 /\ call.request.height # 0
    /\ call.base.width \div call.request.width
         > call.base.height \div call.request.height
    /\ call.ret = 2


\* C11: for every unsigned size and every trim count, also 0, counts larger
\* than the level count and the largest unsigned value, mip_levels(size, trim)
\* is max(mip_levels(size) - trim, 1) computed without wrap-around, where
\* mip_levels(size) is the bit length of min(width, height); it is never less
\* than 1 and never greater than mip_levels(size) when that is at least 1.
C11_MipLevelsTrim ==
    /\ call.op = "mip_levels" =>
        call.ret = BitLength(Min(call.base.width, call.base.height))
    /\ call.op = "mip_levels_trim" =>
        LET l == BitLength(Min(call.base.width, call.base.height))
        IN  /\ call.ret = Max(l - call.trim, 1)
            /\ call.ret >= 1
            /\ l >= 1 => call.ret <= l


\* requests with non-zero dimensions, strictly smaller than base in both
SmallerRequests(base) ==
    {r \in MipSizes : /\ r.width # 0 /\ r.height # 0
                      /\ r.width < base.width /\ r.height < base.height}

\* C13: for request with non-zero dimensions, strictly smaller than base in
\* both, L = nearest_mip_level(base, request) is the deepest level that still
\* covers the request: mip_size(base, L) has width >= request.width and
\* height >= request.height, mip_size(base, L+1) has width < request.width or
\* height < request.height, and L < mip_levels(base).
C13_NearestIsDeepestCovering ==
    /\ call.op = "nearest_mip_level" =>
        (call.request \in SmallerRequests(call.base) =>
            st = "ok" /\ call.ret < MipLevels(call.base))
    /\ call.op = "mip_size" =>
        \A r \in SmallerRequests(call.base) :
            LET L == NearestMipLevel(call.base, r)
            IN  /\ call.level = L =>
                    /\ st = "ok"
                    /\ call.ret.width >= r.width /\ call.ret.height >= r.height
                    /\ call.ret.width >= 1 /\ call.ret.height >= 1
                /\ call.level = L + 1 =>
                    /\ st = "ok"
                    /\ (call.ret.width < r.width \/ call.ret.height < r.height)


(* ------------------------------ folding intersect ---------------------- *)

\* intersect(const std::optional<rect> & a, const rect & b)
Intersect(U, a, b) == IF a = Nullopt THEN b ELSE Intersected(U, a, b)

\* The most rectangles folded in one run.
MaxFold == 3

\* the rectangles folded: constructed by rect(T, T, T, T), with positive width
\* and height
FoldRects(U) ==
    {r \in {Rect4(U, x1, y1, x2, y2) : x1 \in Probe, y1 \in Probe,
                                       x2 \in Probe, y2 \in Probe} :
        r # Throw /\ Positive(r)}

\* acc = intersect(acc, r): rc holds the accumulator, call.rs the rectangles
\* folded so far
FoldStep ==
    /\ Len(call.rs) < MaxFold
    /\ \E r \in FoldRects(unsignedS) :
        LET res == Intersect(unsignedS, rc, r)
        IN  /\ rc' = IF res = Throw THEN rc ELSE res
            /\ st' = IF res = Throw THEN "invalid_argument" ELSE "ok"
            /\ call' = [op |-> "intersect", rs |-> Append(call.rs, r)]
    /\ UNCHANGED unsignedS

InitFold ==
    /\ unsignedS \in BOOLEAN
    /\ rc = Nullopt
    /\ st = "none"
    /\ call = [op |-> "none", rs |-> <<>>]

NextFold == FoldStep

SpecFold == InitFold /\ [][NextFold]_vars

\* a and b have no common interior: a.intersected(b) is absent
Disjoint(a, b) ==
    b.x1 >= a.x2 \/ b.x2 <= a.x1 \/ b.y1 >= a.y2 \/ b.y2 <= a.y1

\* C12: folding intersect over non-empty, well-formed rectangles r1..rn from
\* the absent value yields their common intersection: a final rectangle is
\* contained in every ri, and if some pair of them is disjoint the final result
\* is absent.
C12_FoldIsCommonIntersection ==
    call.op = "intersect" =>
        /\ st = "ok"
        /\ rc # Nullopt =>
            \A i \in 1..Len(call.rs) : ContainsRect(call.rs[i], rc)
        /\ (\E i, j \in 1..Len(call.rs) : Disjoint(call.rs[i], call.rs[j]))
            => rc = Nullopt

====
